---- MODULE Spec2Model ----
(***************************************************************************)
(* Model of backend/main.py: the TranscriptionService registry            *)
(* (load_model, update_download_progress, transcribe_audio), the           *)
(* /load-model endpoint and the /ws/transcribe streaming session with its  *)
(* instant and final lanes.                                                *)
(*                                                                         *)
(* Audio chunk n is an array holding the one sample n.  Texts are          *)
(* sequences of one-character strings so that str.strip() is computed.     *)
(* time.time() is counted in ticks of 1/TicksPerUnit second.               *)
(***************************************************************************)
EXTENDS Integers, Sequences, FiniteSets, TLC

VARIABLES
    \* ---- TranscriptionService (shared by every thread) ----
    models,             \* tier -> handle; None is 0
    current_model,
    is_downloading,
    download_progress,  \* None or the status record
    onDisk,             \* tiers whose weights are in the project cache
    loads,              \* load_model invocations: 0 is the session's call
    prog,               \* update_download_progress thread of each invocation
    fetches,            \* number of WhisperModel(...) calls started so far
    joining,            \* /load-model blocked in thread.join(): load id, or 0
    status,             \* GET /model-status: the handler's position and its locals
    \* ---- websocket_endpoint (one session) ----
    pc,
    model,
    vad,
    instant,
    wait_time,
    audio_buffer,
    instant_buffer,
    last_transcription_text,
    last_transcription_time,
    last_instant_text,
    last_instant_time,
    instant_audio,      \* last concatenation handed to the adapter, instant lane
    full_audio,         \* last concatenation handed to the adapter, final lane
    pending,            \* segments of the running flush not yet filtered
    \* ---- environment and observation ----
    connected,          \* the client side of the socket is still there
    now,                \* time.time() as the session last read it (current_time)
    received,           \* chunks received so far
    events,             \* events delivered since the last chunk was received
    lane,               \* per lane: flush count, outcome, buffers around the last flush
                        \* and the tier whose model ran it
    decision            \* the duplicate filter's last decision since the last chunk

regVars  == <<models, current_model, is_downloading, download_progress, onDisk,
              loads, prog, fetches, joining>>
sessVars == <<pc, model, vad, instant, wait_time, audio_buffer, instant_buffer,
              last_transcription_text, last_transcription_time,
              last_instant_text, last_instant_time, instant_audio, full_audio,
              pending>>
envVars  == <<connected, now, received, events, lane, decision>>
vars     == <<regVars, status, sessVars, envVars>>

----------------------------------------------------------------------------
\* Bounds of the model

MaxChunks == 42       \* chunks a session receives
MaxSegs   == 2        \* segments one transcription call returns
MaxDt     == 3        \* ticks that pass between two readings of the clock
ClockSpan == 5        \* ticks the clock can advance during a session
MaxLoads  == 2        \* /load-model requests
TicksPerUnit == 2     \* clock ticks in one second

\* Program constants

instant_buffer_size == 8
max_wait            == 300
InstantCadence      == 1 * TicksPerUnit     \* 1.0
FinalCadence        == 2 * TicksPerUnit     \* 2.0

None  == 0
\* download_progress = None
Absent == [status |-> "none", is_downloading |-> FALSE, model |-> ""]
Tiers == {"tiny", "base", "small", "medium", "large"}

----------------------------------------------------------------------------
\* Pure helpers

Min(a, b) == IF a < b THEN a ELSE b
Max(a, b) == IF a > b THEN a ELSE b

\* Python's a // b for b > 0 (floor division)
FloorDiv(a, b) == IF a >= 0 THEN a \div b ELSE -(((-a) + b - 1) \div b)

Range(a, b) == [i \in 1..Max(0, b - a + 1) |-> a + i - 1]

\* A text is the sequence of its characters, each written as its code point
\* (ord): 32 is the space, 104 is "h".
\* The characters str.strip() removes, those for which str.isspace() holds:
\* \t \n \v \f \r (9..13), the separators 28..31, the space, U+0085, U+00A0,
\* U+1680, U+2000..U+200A, U+2028, U+2029, U+202F, U+205F and U+3000
White == (9..13) \cup (28..32) \cup {133, 160, 5760} \cup (8192..8202)
         \cup {8232, 8233, 8239, 8287, 12288}

RECURSIVE LStrip(_)
LStrip(s) == IF s # <<>> /\ Head(s) \in White THEN LStrip(Tail(s)) ELSE s

RECURSIVE RStrip(_)
RStrip(s) == IF s # <<>> /\ s[Len(s)] \in White
             THEN RStrip(SubSeq(s, 1, Len(s) - 1)) ELSE s

\* str.strip()
Strip(s) == RStrip(LStrip(s))

\* buf[-k:] in Python: the last k items for k > 0, everything for k = 0,
\* and buf[m:] (drop the first m) for k = -m < 0
SliceLast(buf, k) ==
    IF k = 0 THEN buf
    ELSE IF k > 0 THEN SubSeq(buf, Max(1, Len(buf) - k + 1), Len(buf))
    ELSE SubSeq(buf, Min(Len(buf), -k) + 1, Len(buf))

\* a threshold that forgets the factor 2
buffer_size_single(v) == 30 - v

\* buffer_size = 30 - (vad * 2)
buffer_size(v) == 30 - (v * 2)

\* a flush that waits for one chunk more than the threshold
ShouldFlushAbove(buf, size) == Len(buf) > size

\* len(buffer) >= size
ShouldFlush(buf, size) == Len(buf) >= size

\* an overlap taken from the front of the buffer
RetainOldest(buf, size) == SubSeq(buf, 1, Min(Len(buf), FloorDiv(size, 4)))

\* buffer[-(size//4):]
Retain(buf, size) == SliceLast(buf, FloorDiv(size, 4))

\* np.frombuffer(data, dtype=np.float32): chunk n is an array of one sample, n
Chunk(n) == <<n>>

\* a concatenation that puts the newest chunk first
RECURSIVE ConcatenateReversed(_)
ConcatenateReversed(buf) ==
    IF buf = <<>> THEN <<>> ELSE ConcatenateReversed(Tail(buf)) \o Head(buf)

\* np.concatenate(buffer): the samples of the chunks, in buffer order
RECURSIVE Concatenate(_)
Concatenate(buf) ==
    IF buf = <<>> THEN <<>> ELSE Head(buf) \o Concatenate(Tail(buf))

\* a filter that lets a repeat through at the cadence itself
ShouldEmitAtCadence(text, last_text, current_time, last_time, cadence) ==
    /\ text # <<>>
    /\ (text # last_text \/ current_time - last_time >= cadence)

\* text and (text != last_text or current_time - last_time > cadence)
ShouldEmit(text, last_text, current_time, last_time, cadence) ==
    /\ text # <<>>
    /\ (text # last_text \/ current_time - last_time > cadence)

\* time.time() when the session starts: epoch seconds, beyond every cadence
StartTime == FinalCadence + 1
MaxTime   == StartTime + ClockSpan


----------------------------------------------------------------------------
\* Values the environment supplies

Hej == <<104, 101, 106>>
Da  == <<100, 97>>

\* segment.text as the model produces it
RawTexts == {<<>>, <<32>>, <<11>>, Hej, <<32>> \o Hej \o <<32>>,
             <<9, 160>> \o Hej \o <<28, 13, 10>>, Da}

\* the segment lists one model call can produce
RawOutputs == UNION {[1..n -> RawTexts] : n \in 0..MaxSegs}

\* query parameters of a connection
SessionModels == {"small", "tiny", "medium", "huge"}
\* vad: int = Query(default=3) takes any integer; the page sends 1..5
UiVads        == 1..5
Vads          == UiVads \cup {0, 13, 14, 15, 16}

\* no status query has been made: pc is "idle", then "read" between lines 210
\* and 211, then "done" with the response in the other fields
NoStatus == [pc |-> "idle", model |-> "small", is_loaded |-> FALSE,
             is_downloading |-> FALSE, is_current |-> FALSE]

NoLoad == [pc |-> "idle", tier |-> "small", needs_download |-> FALSE]
LoadIds == 0..MaxLoads

NoLane == [flushes |-> 0, at |-> 0, retained |-> <<>>, outcome |-> "none",
           tier |-> ""]

NoDecision == [mode |-> "", text |-> <<>>, last_text |-> <<>>, elapsed |-> 0,
               result |-> "none"]
Decision(mode, text, last_text, elapsed, result) ==
    [mode |-> mode, text |-> text, last_text |-> last_text, elapsed |-> elapsed,
     result |-> result]

\* the body of a sent frame
Event(type, mode, m, text) == [type |-> type, mode |-> mode, model |-> m, text |-> text]

----------------------------------------------------------------------------
\* TranscriptionService.transcribe_audio: the texts are stripped once here

transcribe_audio(raw) == [i \in 1..Len(raw) |-> [text |-> Strip(raw[i])]]

\* what a call of the adapter can give: an exception, or the segment list.
\* With no handle in the current slot only the exception is possible.
AdapterOutcomes ==
    {[ok |-> FALSE, segs |-> <<>>]} \cup
    (IF models[current_model] = None THEN {}
     ELSE {[ok |-> TRUE, segs |-> transcribe_audio(raw)] : raw \in RawOutputs})

----------------------------------------------------------------------------
\* State after construction: "small" is loaded and current, nothing downloads

Init ==
    /\ models = [t \in Tiers |-> IF t = "small" THEN 1 ELSE None]
    /\ current_model = "small"
    /\ is_downloading = FALSE
    /\ download_progress = Absent
    /\ onDisk = {"small", "tiny"}
    /\ loads = [i \in LoadIds |-> NoLoad]
    /\ prog = [i \in LoadIds |-> "none"]
    /\ fetches = 1
    /\ joining = 0
    /\ status = NoStatus
    /\ pc = "wait"
    /\ model \in SessionModels
    /\ vad \in Vads
    /\ instant \in BOOLEAN
    /\ wait_time = 0
    /\ audio_buffer = <<>>
    /\ instant_buffer = <<>>
    /\ last_transcription_text = <<>>
    /\ last_transcription_time = 0
    /\ last_instant_text = <<>>
    /\ last_instant_time = 0
    /\ instant_audio = <<>>
    /\ full_audio = <<>>
    /\ pending = <<>>
    /\ connected = TRUE
    /\ now = StartTime
    /\ received = 0
    /\ events = <<>>
    /\ lane = [l \in {"instant", "final"} |-> NoLane]
    /\ decision = NoDecision

----------------------------------------------------------------------------
\* websocket_endpoint: the stream loop

\* the client goes away (or the connection drops)
ClientDisconnect ==
    /\ connected /\ pc # "closed"
    /\ connected' = FALSE
    /\ UNCHANGED <<status, regVars, sessVars, now, received, events, lane, decision>>

\* an instant lane that is fed whatever the session asked for
FeedInstantAlways(buf, chunk) == Append(buf, chunk)

\* if instant: instant_buffer.append(audio_array)
FeedInstant(buf, chunk) == IF instant THEN Append(buf, chunk) ELSE buf

\* data = await websocket.receive_bytes(); both buffers take the chunk
ReceiveChunk ==
    /\ pc = "recv" /\ joining = 0 /\ status.pc # "read"
    /\ connected /\ received < MaxChunks
    /\ received' = received + 1
    /\ audio_buffer' = Append(audio_buffer, Chunk(received + 1))
    /\ instant_buffer' = FeedInstant(instant_buffer, Chunk(received + 1))
    /\ pc' = IF instant THEN "instant" ELSE "final"
    /\ events' = <<>>
    /\ lane' = [l \in {"instant", "final"} |-> [lane[l] EXCEPT !.outcome = "none"]]
    /\ decision' = NoDecision
    /\ UNCHANGED <<status, regVars, model, vad, instant, wait_time,
                   last_transcription_text, last_transcription_time,
                   last_instant_text, last_instant_time, instant_audio, full_audio,
                   pending, connected, now>>

\* receive_bytes raises: WebSocketDisconnect, or a frame that is no float32 array
ReceiveFails ==
    /\ pc = "recv" /\ joining = 0 /\ status.pc # "read"
    /\ pc' = "closed"
    /\ UNCHANGED <<status, regVars, model, vad, instant, wait_time, audio_buffer,
                   instant_buffer, last_transcription_text, last_transcription_time,
                   last_instant_text, last_instant_time, instant_audio, full_audio,
                   pending, envVars>>

\* an instant lane that reports its failure as the final lane does
InstantErrorReported(evts) == Append(evts, Event("error", "", "", <<>>))

\* except Exception in the instant lane: logger.error(...) and nothing else
InstantErrorEvents(evts) == evts

\* if instant: ... if len(instant_buffer) >= instant_buffer_size: flush
InstantLane ==
    /\ pc = "instant" /\ joining = 0 /\ status.pc # "read"
    /\ IF ~ShouldFlush(instant_buffer, instant_buffer_size)
       THEN /\ pc' = "final"
            /\ UNCHANGED <<status, instant_audio, instant_buffer, pending, lane, events>>
       ELSE /\ instant_audio' = Concatenate(instant_buffer)
            /\ instant_buffer' = Retain(instant_buffer, instant_buffer_size)
            /\ \E out \in AdapterOutcomes :
                 /\ pending' = out.segs
                 /\ events' = IF out.ok THEN events ELSE InstantErrorEvents(events)
                 /\ pc' = IF out.ok /\ out.segs # <<>> THEN "iseg" ELSE "final"
                 /\ lane' = [lane EXCEPT !["instant"] =
                       [flushes |-> @.flushes + 1, at |-> received,
                        retained |-> instant_buffer',
                        outcome |-> IF out.ok THEN "ok" ELSE "fail",
                        tier |-> current_model]]
    /\ UNCHANGED <<status, regVars, model, vad, instant, wait_time, audio_buffer,
                   last_transcription_text, last_transcription_time,
                   last_instant_text, last_instant_time, full_audio,
                   connected, now, received, decision>>

\* a dedup state whose time is never brought forward
LastEmittedStale(text, current_time) == [text |-> text, time |-> 0]

\* last_*_text = text; last_*_time = current_time
LastEmitted(text, current_time) == [text |-> text, time |-> current_time]

\* one turn of "for transcription in instant_transcriptions" up to the await
\* of send_json: the clock is read, the filter applied and the frame sent
InstantSegment ==
    /\ pc = "iseg" /\ joining = 0 /\ status.pc # "read"
    /\ \E dt \in 0..MaxDt :
         /\ now + dt <= MaxTime
         /\ now' = now + dt
    /\ LET transcription == Head(pending)
           text == Strip(transcription.text)
           result == IF ~ShouldEmit(text, last_instant_text, now', last_instant_time,
                                    InstantCadence) THEN "suppressed"
                     ELSE IF connected THEN "sent" ELSE "send_failed"
       IN /\ decision' = Decision("instant", text, last_instant_text,
                                  now' - last_instant_time, result)
          /\ IF ShouldEmit(text, last_instant_text, now', last_instant_time, InstantCadence)
             THEN IF connected
                  THEN \* the coroutine is suspended in send_json with the frame out
                       /\ events' = Append(events,
                             Event("transcription", "instant", "", transcription.text))
                       /\ pc' = "isent"
                       /\ UNCHANGED <<status, pending, lane>>
                  ELSE \* send_json raises inside the try: logged, the loop is left
                       /\ pending' = <<>>
                       /\ pc' = "final"
                       /\ lane' = [lane EXCEPT !["instant"].outcome = "send_failed"]
                       /\ UNCHANGED events
             ELSE /\ pending' = Tail(pending)
                  /\ pc' = IF Tail(pending) = <<>> THEN "final" ELSE "iseg"
                  /\ UNCHANGED <<status, events, lane>>
    /\ UNCHANGED <<status, regVars, model, vad, instant, wait_time, audio_buffer,
                   instant_buffer, last_transcription_text, last_transcription_time,
                   last_instant_text, last_instant_time,
                   instant_audio, full_audio, connected, received>>

\* send_json has returned: last_instant_text = text; last_instant_time = current_time
InstantRemember ==
    /\ pc = "isent" /\ joining = 0 /\ status.pc # "read"
    /\ LET text == Strip(Head(pending).text) IN
         /\ last_instant_text' = LastEmitted(text, now).text
         /\ last_instant_time' = LastEmitted(text, now).time
    /\ pending' = Tail(pending)
    /\ pc' = IF Tail(pending) = <<>> THEN "final" ELSE "iseg"
    /\ UNCHANGED <<status, regVars, model, vad, instant, wait_time, audio_buffer,
                   instant_buffer, last_transcription_text, last_transcription_time,
                   instant_audio, full_audio, envVars>>

\* a final lane that only logs, as the instant lane does
FinalErrorSilent(evts) == evts

\* except Exception in the final lane: await websocket.send_json({"type": "error", ...})
FinalErrorEvents(evts) == Append(evts, Event("error", "", "", <<>>))

\* if len(audio_buffer) >= buffer_size: flush; a failure is reported to the client
FinalLane ==
    /\ pc = "final" /\ joining = 0 /\ status.pc # "read"
    /\ IF ~ShouldFlush(audio_buffer, buffer_size(vad))
       THEN /\ pc' = "recv"
            /\ UNCHANGED <<status, full_audio, audio_buffer, pending, lane, events>>
       ELSE /\ full_audio' = Concatenate(audio_buffer)
            /\ audio_buffer' = Retain(audio_buffer, buffer_size(vad))
            /\ \E out \in AdapterOutcomes :
                 /\ pending' = out.segs
                 /\ lane' = [lane EXCEPT !["final"] =
                       [flushes |-> @.flushes + 1, at |-> received,
                        retained |-> audio_buffer',
                        outcome |-> IF out.ok THEN "ok" ELSE "fail",
                        tier |-> current_model]]
                 /\ IF out.ok
                    THEN /\ pc' = IF out.segs # <<>> THEN "fseg" ELSE "recv"
                         /\ UNCHANGED events
                    ELSE IF connected
                    THEN /\ events' = FinalErrorEvents(events)
                         /\ pc' = "recv"
                    ELSE \* the error frame cannot be sent: the outer handler ends
                         /\ pc' = "closed"
                         /\ UNCHANGED events
    /\ UNCHANGED <<status, regVars, model, vad, instant, wait_time, instant_buffer,
                   last_transcription_text, last_transcription_time,
                   last_instant_text, last_instant_time, instant_audio,
                   connected, now, received, decision>>

\* one turn of "for transcription in transcriptions" up to the await of
\* send_json: the clock is read, the filter applied and the frame sent
FinalSegment ==
    /\ pc = "fseg" /\ joining = 0 /\ status.pc # "read"
    /\ \E dt \in 0..MaxDt :
         /\ now + dt <= MaxTime
         /\ now' = now + dt
    /\ LET transcription == Head(pending)
           text == Strip(transcription.text)
           result == IF ~ShouldEmit(text, last_transcription_text, now',
                                    last_transcription_time, FinalCadence)
                     THEN "suppressed"
                     ELSE IF connected THEN "sent" ELSE "send_failed"
       IN /\ decision' = Decision("final", text, last_transcription_text,
                                  now' - last_transcription_time, result)
          /\ IF ShouldEmit(text, last_transcription_text, now', last_transcription_time,
                           FinalCadence)
             THEN IF connected
                  THEN \* the coroutine is suspended in send_json with the frame out
                       /\ events' = Append(events,
                             Event("transcription", "final", "", transcription.text))
                       /\ pc' = "fsent"
                       /\ UNCHANGED <<status, pending, lane>>
                  ELSE \* send_json raises, and so does sending the error frame
                       /\ pending' = <<>>
                       /\ pc' = "closed"
                       /\ lane' = [lane EXCEPT !["final"].outcome = "send_failed"]
                       /\ UNCHANGED events
             ELSE /\ pending' = Tail(pending)
                  /\ pc' = IF Tail(pending) = <<>> THEN "recv" ELSE "fseg"
                  /\ UNCHANGED <<status, events, lane>>
    /\ UNCHANGED <<status, regVars, model, vad, instant, wait_time, audio_buffer,
                   instant_buffer, last_transcription_text, last_transcription_time,
                   last_instant_text, last_instant_time,
                   instant_audio, full_audio, connected, received>>

\* send_json has returned: last_transcription_text = text;
\* last_transcription_time = current_time
FinalRemember ==
    /\ pc = "fsent" /\ joining = 0 /\ status.pc # "read"
    /\ LET text == Strip(Head(pending).text) IN
         /\ last_transcription_text' = LastEmitted(text, now).text
         /\ last_transcription_time' = LastEmitted(text, now).time
    /\ pending' = Tail(pending)
    /\ pc' = IF Tail(pending) = <<>> THEN "recv" ELSE "fseg"
    /\ UNCHANGED <<status, regVars, model, vad, instant, wait_time, audio_buffer,
                   instant_buffer, last_instant_text, last_instant_time,
                   instant_audio, full_audio, envVars>>


----------------------------------------------------------------------------
\* TranscriptionService.load_model, run by invocation i (0: the session's
\* synchronous call, 1..MaxLoads: the threads of /load-model)

\* a fetch that leaves nothing to store
HandleAbsent(i) == None

\* the object WhisperModel(...) returns to invocation i
Handle(i) == i + 2

\* a load that never takes the already-loaded return
NeverLoaded(t) == FALSE

\* if self.models[model_size] is not None
AlreadyLoaded(t) == models[t] # None

\* lines 98-104: the ValueError check and the test of the slot, with the
\* already-loaded return
LoadStart(i) ==
    /\ loads[i].pc = "start"
    /\ LET t == loads[i].tier IN
       IF t \notin Tiers
       THEN /\ loads' = [loads EXCEPT ![i].pc = "raised"]
            /\ UNCHANGED current_model
       ELSE IF AlreadyLoaded(t)
       THEN /\ current_model' = t
            /\ loads' = [loads EXCEPT ![i].pc = "returned"]
       ELSE /\ loads' = [loads EXCEPT ![i].pc = "check"]
            /\ UNCHANGED current_model
    /\ UNCHANGED <<status, models, is_downloading, download_progress, onDisk, prog, fetches,
                   joining, sessVars, envVars>>

\* line 110: needs_download = not self.model_exists_locally(model_size); with
\* the weights on disk WhisperModel(...) is called next
LoadCheckDisk(i) ==
    /\ loads[i].pc = "check"
    /\ LET needs_download == loads[i].tier \notin onDisk IN
         /\ loads' = [loads EXCEPT ![i].pc = IF needs_download THEN "mark" ELSE "fetching",
                                   ![i].needs_download = needs_download]
         /\ fetches' = IF needs_download THEN fetches ELSE fetches + 1
    /\ UNCHANGED <<status, models, current_model, is_downloading, download_progress, onDisk,
                   prog, joining, sessVars, envVars>>

\* lines 114-122: self.is_downloading = True, the progress thread is started,
\* and WhisperModel(...) is called
LoadMarkDownloading(i) ==
    /\ loads[i].pc = "mark"
    /\ is_downloading' = TRUE
    /\ prog' = [prog EXCEPT ![i] = "begin"]
    /\ fetches' = fetches + 1
    /\ loads' = [loads EXCEPT ![i].pc = "fetching"]
    /\ UNCHANGED <<status, models, current_model, download_progress, onDisk, joining,
                   sessVars, envVars>>

\* WhisperModel(...) returns and the handle is stored
LoadFetched(i) ==
    /\ loads[i].pc = "fetching"
    /\ models' = [models EXCEPT ![loads[i].tier] = Handle(i)]
    /\ onDisk' = onDisk \cup {loads[i].tier}
    /\ loads' = [loads EXCEPT ![i].pc = "loaded"]
    /\ UNCHANGED <<status, current_model, is_downloading, download_progress, prog, fetches,
                   joining, sessVars, envVars>>

\* WhisperModel(...) raises; except: self.is_downloading = False
LoadFetchFails(i) ==
    /\ loads[i].pc = "fetching"
    /\ is_downloading' = FALSE
    /\ loads' = [loads EXCEPT ![i].pc = "except"]
    /\ UNCHANGED <<status, models, current_model, download_progress, onDisk, prog, fetches,
                   joining, sessVars, envVars>>

\* except, line 152: self.download_progress = None; raise
LoadExcept(i) ==
    /\ loads[i].pc = "except"
    /\ download_progress' = Absent
    /\ loads' = [loads EXCEPT ![i].pc = "raised"]
    /\ UNCHANGED <<status, models, current_model, is_downloading, onDisk, prog, fetches,
                   joining, sessVars, envVars>>

\* self.is_downloading = False (then time.sleep(2) after a download)
LoadMarkComplete(i) ==
    /\ loads[i].pc = "loaded"
    /\ is_downloading' = FALSE
    /\ loads' = [loads EXCEPT ![i].pc = "finish"]
    /\ UNCHANGED <<status, models, current_model, download_progress, onDisk, prog, fetches,
                   joining, sessVars, envVars>>

\* line 146: self.current_model = model_size
LoadFinish(i) ==
    /\ loads[i].pc = "finish"
    /\ current_model' = loads[i].tier
    /\ loads' = [loads EXCEPT ![i].pc = "clear"]
    /\ UNCHANGED <<status, models, is_downloading, download_progress, onDisk, prog, fetches,
                   joining, sessVars, envVars>>

\* line 147: self.download_progress = None, and the return
LoadClearProgress(i) ==
    /\ loads[i].pc = "clear"
    /\ download_progress' = Absent
    /\ loads' = [loads EXCEPT ![i].pc = "returned"]
    /\ UNCHANGED <<status, models, current_model, is_downloading, onDisk, prog, fetches,
                   joining, sessVars, envVars>>

----------------------------------------------------------------------------
\* TranscriptionService.update_download_progress, the thread started by load i

Downloading(t) == [status |-> "downloading", is_downloading |-> TRUE, model |-> t]
Completed(t)   == [status |-> "complete", is_downloading |-> FALSE, model |-> t]

\* the first status
ProgressBegin(i) ==
    /\ prog[i] = "begin"
    /\ download_progress' = Downloading(loads[i].tier)
    /\ prog' = [prog EXCEPT ![i] = "loop"]
    /\ UNCHANGED <<status, models, current_model, is_downloading, onDisk, loads, fetches,
                   joining, sessVars, envVars>>

\* "while self.is_downloading" ends: the completion status
ProgressComplete(i) ==
    /\ prog[i] = "loop"
    /\ ~is_downloading
    /\ download_progress' = Completed(loads[i].tier)
    /\ prog' = [prog EXCEPT ![i] = "hold"]
    /\ UNCHANGED <<status, models, current_model, is_downloading, onDisk, loads, fetches,
                   joining, sessVars, envVars>>

\* after time.sleep(2): self.download_progress = None
ProgressClear(i) ==
    /\ prog[i] = "hold"
    /\ download_progress' = Absent
    /\ prog' = [prog EXCEPT ![i] = "none"]
    /\ UNCHANGED <<status, models, current_model, is_downloading, onDisk, loads, fetches,
                   joining, sessVars, envVars>>

\* GET /download-progress
poll == download_progress

\* GET /model-status?model=t: the response, is_loaded being the value line 210
\* read before lines 211 and 217 read the flag and the current tier
model_status(t, is_loaded) ==
    [model |-> t,
     is_loaded |-> is_loaded,
     is_downloading |-> (is_downloading /\ current_model = t),
     is_current |-> (current_model = t)]

----------------------------------------------------------------------------
\* POST /load-model

ReqTiers == {"small", "tiny", "medium"}

\* the session coroutine is suspended in an await (accept, sleep, send_json,
\* receive_bytes) or has ended, no handler blocks the loop in join and none
\* is running model_status
LoopFree ==
    /\ joining = 0
    /\ status.pc # "read"
    /\ pc \in {"wait", "sleep", "announce", "recv", "isent", "fsent", "closed"}

\* the handler starts the thread; for a cached model it then blocks in join
LoadModelRequest(t) ==
    /\ LoopFree
    /\ \E i \in 1..MaxLoads :
         /\ loads[i].pc = "idle"
         /\ \A j \in 1..(i - 1) : loads[j].pc # "idle"
         /\ loads' = [loads EXCEPT ![i] = [pc |-> "start", tier |-> t,
                                           needs_download |-> FALSE]]
         /\ joining' = IF t \notin onDisk THEN 0 ELSE i
    /\ UNCHANGED <<status, models, current_model, is_downloading, download_progress, onDisk,
                   prog, fetches, sessVars, envVars>>

\* thread.join(timeout=30) returns: the thread ended, or 30 s passed
LoadModelJoinEnds ==
    /\ joining # 0
    /\ joining' = 0
    /\ UNCHANGED <<status, models, current_model, is_downloading, download_progress, onDisk,
                   loads, prog, fetches, sessVars, envVars>>

\* the tiers a status query is made for
StatusTiers == {"small", "tiny", "medium"}

\* model_status, line 210: models.get(model) is not None; the call gives the
\* load threads a chance to run before line 211
ModelStatusRead(t) ==
    /\ LoopFree
    /\ status' = [pc |-> "read", model |-> t,
                  is_loaded |-> IF t \in DOMAIN models THEN models[t] # None
                                ELSE FALSE,
                  is_downloading |-> FALSE, is_current |-> FALSE]
    /\ UNCHANGED <<regVars, sessVars, envVars>>

\* model_status, lines 211-218: the flag and the current tier are read and
\* the response is returned
ModelStatusRespond ==
    /\ status.pc = "read"
    /\ status' = [pc |-> "done"] @@ model_status(status.model, status.is_loaded)
    /\ UNCHANGED <<regVars, sessVars, envVars>>

----------------------------------------------------------------------------
\* websocket_endpoint: the start of a session

DownloadInProgress == \E i \in LoadIds : loads[i].pc = "fetching" /\ loads[i].needs_download

\* while is_downloading and wait_time < max_wait: the test holds and the
\* coroutine is suspended in await asyncio.sleep(1)
SessionWaitSleep ==
    /\ pc \in {"wait", "test"} /\ joining = 0 /\ status.pc # "read"
    /\ is_downloading /\ wait_time < max_wait
    /\ pc' = "sleep"
    /\ UNCHANGED <<status, regVars, model, vad, instant, wait_time, audio_buffer,
                   instant_buffer, last_transcription_text, last_transcription_time,
                   last_instant_text, last_instant_time, instant_audio, full_audio,
                   pending, envVars>>

\* the sleep is over: wait_time += 1, and the test of the loop comes next
SessionWake ==
    /\ pc = "sleep" /\ joining = 0 /\ status.pc # "read"
    /\ wait_time' = wait_time + 1
    /\ pc' = "test"
    /\ UNCHANGED <<status, regVars, model, vad, instant, audio_buffer, instant_buffer,
                   last_transcription_text, last_transcription_time,
                   last_instant_text, last_instant_time, instant_audio, full_audio,
                   pending, envVars>>

\* a session that switches whatever the current tier is
AlwaysSwitch == TRUE

\* if model != transcription_service.current_model
NeedsSwitch == model # current_model

\* the test of the wait loop fails: line 343 comes next
SessionProceed ==
    /\ pc \in {"wait", "test"} /\ joining = 0 /\ status.pc # "read"
    /\ ~(is_downloading /\ wait_time < max_wait)
    /\ pc' = "switch"
    /\ UNCHANGED <<status, regVars, model, vad, instant, wait_time, audio_buffer,
                   instant_buffer, last_transcription_text, last_transcription_time,
                   last_instant_text, last_instant_time, instant_audio, full_audio,
                   pending, envVars>>

\* line 343: with the tier current the session goes on to receive_bytes;
\* otherwise model_loading is sent, and the coroutine is suspended in that send
SessionSwitch ==
    /\ pc = "switch" /\ joining = 0 /\ status.pc # "read"
    /\ IF ~NeedsSwitch
       THEN /\ pc' = "recv"
            /\ UNCHANGED events
       ELSE IF connected
       THEN /\ events' = Append(events, Event("model_loading", "", model, <<>>))
            /\ pc' = "announce"
       ELSE /\ pc' = "closed"
            /\ UNCHANGED events
    /\ UNCHANGED <<status, regVars, model, vad, instant, wait_time, audio_buffer,
                   instant_buffer, last_transcription_text, last_transcription_time,
                   last_instant_text, last_instant_time, instant_audio, full_audio,
                   pending, connected, now, received, lane, decision>>

\* the send has returned: transcription_service.load_model(model) is entered
SessionEnterLoad ==
    /\ pc = "announce" /\ joining = 0 /\ status.pc # "read"
    /\ loads' = [loads EXCEPT ![0] = [pc |-> "start", tier |-> model,
                                      needs_download |-> FALSE]]
    /\ pc' = "load"
    /\ UNCHANGED <<status, models, current_model, is_downloading, download_progress, onDisk,
                   prog, fetches, joining, model, vad, instant, wait_time,
                   audio_buffer, instant_buffer,
                   last_transcription_text, last_transcription_time,
                   last_instant_text, last_instant_time, instant_audio, full_audio,
                   pending, envVars>>

\* load_model returned: model_loaded is sent and the loop is entered
SessionLoaded ==
    /\ pc = "load" /\ loads[0].pc = "returned"
    /\ IF connected
       THEN /\ events' = Append(events, Event("model_loaded", "", model, <<>>))
            /\ pc' = "recv"
       ELSE /\ pc' = "closed"
            /\ UNCHANGED events
    /\ UNCHANGED <<status, regVars, model, vad, instant, wait_time, audio_buffer,
                   instant_buffer, last_transcription_text, last_transcription_time,
                   last_instant_text, last_instant_time, instant_audio, full_audio,
                   pending, connected, now, received, lane, decision>>

\* load_model raised: except Exception: log, websocket.close()
SessionLoadRaised ==
    /\ pc = "load" /\ loads[0].pc = "raised"
    /\ pc' = "closed"
    /\ UNCHANGED <<status, regVars, model, vad, instant, wait_time, audio_buffer,
                   instant_buffer, last_transcription_text, last_transcription_time,
                   last_instant_text, last_instant_time, instant_audio, full_audio,
                   pending, envVars>>

----------------------------------------------------------------------------
\* Specifications

StreamNext ==
    \/ SessionProceed
    \/ SessionSwitch
    \/ ClientDisconnect
    \/ ReceiveChunk
    \/ ReceiveFails
    \/ InstantLane
    \/ InstantSegment
    \/ InstantRemember
    \/ FinalLane
    \/ FinalSegment
    \/ FinalRemember

\* a session of a tier that is already current: the stream loop
InitStream == Init /\ model = "small" /\ vad \in UiVads
SpecStream == InitStream /\ [][StreamNext]_vars

\* a session without instant mode, with a sensitivity the page does not offer
VadNext ==
    \/ SessionProceed
    \/ SessionSwitch
    \/ ClientDisconnect
    \/ ReceiveChunk
    \/ ReceiveFails
    \/ FinalLane
    \/ FinalSegment
    \/ FinalRemember
InitVad == Init /\ model = "small" /\ vad \notin UiVads /\ instant = FALSE
SpecVad == InitVad /\ [][VadNext]_vars

MaxSleeps == 1        \* sleeps of the wait loop that the session wakes from

\* the threads of load_model and update_download_progress, and POST /load-model
LoadsNext ==
    \/ \E i \in LoadIds : LoadStart(i)
    \/ \E i \in LoadIds : LoadCheckDisk(i)
    \/ \E i \in LoadIds : LoadMarkDownloading(i)
    \/ \E i \in LoadIds : LoadFetched(i)
    \/ \E i \in LoadIds : LoadFetchFails(i)
    \/ \E i \in LoadIds : LoadExcept(i)
    \/ \E i \in LoadIds : LoadMarkComplete(i)
    \/ \E i \in LoadIds : LoadFinish(i)
    \/ \E i \in LoadIds : LoadClearProgress(i)
    \/ \E i \in LoadIds : ProgressBegin(i)
    \/ \E i \in LoadIds : ProgressComplete(i)
    \/ \E i \in LoadIds : ProgressClear(i)
    \/ \E t \in ReqTiers : LoadModelRequest(t)
    \/ LoadModelJoinEnds

\* the registry under load requests alone: the websocket coroutine takes no step
InitLoads == Init /\ model = "small" /\ vad = 3 /\ instant = FALSE
SpecLoads == InitLoads /\ [][LoadsNext]_vars

\* the registry under load requests and status queries
StatusNext ==
    \/ LoadsNext
    \/ \E t \in StatusTiers : ModelStatusRead(t)
    \/ ModelStatusRespond
SpecStatus == InitLoads /\ [][StatusNext]_vars

RegistryNext ==
    \/ LoadsNext
    \/ SessionWaitSleep
    \/ (wait_time < MaxSleeps /\ SessionWake)
    \/ SessionProceed
    \/ SessionSwitch
    \/ SessionEnterLoad
    \/ SessionLoaded
    \/ SessionLoadRaised

\* the registry under load requests and a starting session, up to the stream loop
InitReg == Init /\ vad = 3 /\ instant = FALSE
Next ==
    \/ RegistryNext
    \/ ClientDisconnect
Spec == InitReg /\ [][Next]_vars

\* a starting session beside the /load-model threads, with MaxLoads loads in
\* all when the session's own is counted
StartNext ==
    \/ \E i \in LoadIds : LoadStart(i)
    \/ \E i \in LoadIds : LoadCheckDisk(i)
    \/ \E i \in LoadIds : LoadMarkDownloading(i)
    \/ \E i \in LoadIds : LoadFetched(i)
    \/ \E i \in LoadIds : LoadFetchFails(i)
    \/ \E i \in LoadIds : LoadExcept(i)
    \/ \E i \in LoadIds : LoadMarkComplete(i)
    \/ \E i \in LoadIds : LoadFinish(i)
    \/ \E i \in LoadIds : LoadClearProgress(i)
    \/ \E i \in LoadIds : ProgressBegin(i)
    \/ \E i \in LoadIds : ProgressComplete(i)
    \/ \E i \in LoadIds : ProgressClear(i)
    \/ \E t \in ReqTiers : (loads[MaxLoads - 1].pc = "idle" /\ LoadModelRequest(t))
    \/ LoadModelJoinEnds
    \/ SessionWaitSleep
    \/ (wait_time < MaxSleeps /\ SessionWake)
    \/ SessionProceed
    \/ SessionSwitch
    \/ SessionEnterLoad
    \/ SessionLoaded
    \/ SessionLoadRaised
    \/ ClientDisconnect
SpecStart == InitReg /\ [][StartNext]_vars

\* a session in instant mode up to its first instant flush, beside the loads
\* of /load-model
SwitchNext ==
    \/ \E i \in LoadIds : LoadStart(i)
    \/ \E i \in LoadIds : LoadCheckDisk(i)
    \/ \E i \in LoadIds : LoadMarkDownloading(i)
    \/ \E i \in LoadIds : LoadFetched(i)
    \/ \E i \in LoadIds : LoadFetchFails(i)
    \/ \E i \in LoadIds : LoadExcept(i)
    \/ \E i \in LoadIds : LoadMarkComplete(i)
    \/ \E i \in LoadIds : LoadFinish(i)
    \/ \E i \in LoadIds : LoadClearProgress(i)
    \/ \E i \in LoadIds : ProgressBegin(i)
    \/ \E i \in LoadIds : ProgressComplete(i)
    \/ \E i \in LoadIds : ProgressClear(i)
    \/ \E t \in ReqTiers : (loads[MaxLoads - 1].pc = "idle" /\ LoadModelRequest(t))
    \/ LoadModelJoinEnds
    \/ SessionWaitSleep
    \/ (wait_time < MaxSleeps /\ SessionWake)
    \/ SessionProceed
    \/ SessionSwitch
    \/ SessionEnterLoad
    \/ SessionLoaded
    \/ SessionLoadRaised
    \/ (received < instant_buffer_size /\ ReceiveChunk)
    \/ ReceiveFails
    \/ InstantLane
    \/ InstantSegment
    \/ InstantRemember
    \/ FinalLane
InitSwitch == Init /\ vad = 3 /\ instant = TRUE
SpecSwitch == InitSwitch /\ [][SwitchNext]_vars


----------------------------------------------------------------------------
\* Properties of the stream loop (SpecStream)

Increasing(q) == \A j \in 1..(Len(q) - 1) : q[j] < q[j + 1]

Count(q, type, mode) ==
    Cardinality({j \in 1..Len(q) : q[j].type = type /\ q[j].mode = mode})

\* C1: in each lane a segment of a successful flush is emitted iff its stripped
\* text is non-empty and it differs from the lane's last emitted text or more
\* than the lane's cadence (1.0 instant, 2.0 final) has passed since the lane's
\* last emission; a segment that does not pass sends nothing.  (A segment that
\* passes is sent when the socket still takes frames.)
C1_DedupRule ==
    [][ /\ (pc = "iseg" /\ (pending' # pending \/ pc' # pc)) =>
             LET text == Strip(Head(pending).text)
                 pass == /\ text # <<>>
                         /\ \/ text # last_instant_text
                            \/ now' - last_instant_time > 1 * TicksPerUnit
                 sent == events' = Append(events,
                            Event("transcription", "instant", "", Head(pending).text))
             IN /\ sent => pass
                /\ (pass /\ connected) => sent
                /\ ~pass => events' = events
        /\ (pc = "fseg" /\ (pending' # pending \/ pc' # pc)) =>
             LET text == Strip(Head(pending).text)
                 pass == /\ text # <<>>
                         /\ \/ text # last_transcription_text
                            \/ now' - last_transcription_time > 2 * TicksPerUnit
                 sent == events' = Append(events,
                            Event("transcription", "final", "", Head(pending).text))
             IN /\ sent => pass
                /\ (pass /\ connected) => sent
                /\ ~pass => events' = events
      ]_vars

\* the final lane has just suppressed a repeat that arrived exactly 2.0 after
\* the emission of the same text
C1_Witness ==
    /\ decision.mode = "final"
    /\ decision.result = "suppressed"
    /\ decision.text = Hej /\ decision.last_text = Hej
    /\ decision.elapsed = 2 * TicksPerUnit

\* C2: the audio of a lane's first flush is every chunk received so far, in
\* receipt order; the audio of a later flush is what the lane retained after
\* its previous flush followed by the chunks received since, in receipt order,
\* with no chunk dropped, repeated or moved.
C2_ConcatenationOrder ==
    [][ /\ lane'["final"].flushes # lane["final"].flushes =>
             /\ full_audio' =
                  IF lane["final"].flushes = 0 THEN Range(1, received)
                  ELSE Concatenate(lane["final"].retained)
                          \o Range(lane["final"].at + 1, received)
             /\ Increasing(full_audio')
        /\ lane'["instant"].flushes # lane["instant"].flushes =>
             /\ instant_audio' =
                  IF lane["instant"].flushes = 0 THEN Range(1, received)
                  ELSE Concatenate(lane["instant"].retained)
                          \o Range(lane["instant"].at + 1, received)
             /\ Increasing(instant_audio')
      ]_vars

\* sensitivity 5 with instant mode: the second final flush took chunks 16..35,
\* and the sixth instant flush before it chunks 25..32
C2_Witness ==
    /\ vad = 5 /\ instant
    /\ lane["final"].flushes = 2
    /\ full_audio = Range(16, 35)
    /\ instant_audio = Range(25, 32)

\* C3: for sensitivity 1..5 the final lane flushes on a chunk iff it then holds
\* at least 30 - 2*vad chunks, so its first flush is on chunk 30 - 2*vad; the
\* instant lane does the same with 8 chunks whatever the sensitivity.
C3_FlushThreshold ==
    LET T == 30 - 2 * vad
        flushedF == lane["final"].flushes >= 1 /\ lane["final"].at = received
        flushedI == lane["instant"].flushes >= 1 /\ lane["instant"].at = received
    IN /\ (pc \in {"recv", "fseg", "fsent"} /\ received > 0) =>
            IF flushedF THEN Len(full_audio) >= T ELSE Len(audio_buffer) < T
       /\ lane["final"].flushes = 0 => Len(audio_buffer) = received
       /\ lane["final"].flushes = 1 => lane["final"].at = T
       /\ (instant /\ pc \in {"iseg", "isent", "final", "recv", "fseg", "fsent"}
                   /\ received > 0) =>
            IF flushedI THEN Len(instant_audio) >= 8 ELSE Len(instant_buffer) < 8
       /\ (instant /\ lane["instant"].flushes = 0) => Len(instant_buffer) = received
       /\ lane["instant"].flushes = 1 => lane["instant"].at = 8

\* sensitivity 3: the first final flush has just happened, on chunk 24
C3_Witness ==
    /\ vad = 3 /\ instant
    /\ lane["final"].flushes = 1 /\ lane["final"].at = 24 /\ received = 24
    /\ lane["instant"].flushes = 3

\* C4: right after a flush, whatever the transcription call did, the lane holds
\* exactly the floor(threshold/4) chunks received last.
C4_RetainedOverlap ==
    LET k == (30 - 2 * vad) \div 4 IN
    /\ (lane["final"].flushes >= 1 /\ lane["final"].at = received) =>
          /\ audio_buffer = [j \in 1..k |-> <<received - k + j>>]
          /\ Concatenate(audio_buffer)
                = SubSeq(full_audio, Len(full_audio) - k + 1, Len(full_audio))
          /\ vad = 3 => Len(audio_buffer) = 6
    /\ (lane["instant"].flushes >= 1 /\ lane["instant"].at = received) =>
          /\ instant_buffer = <<<<received - 1>>, <<received>>>>
          /\ Concatenate(instant_buffer)
                = SubSeq(instant_audio, Len(instant_audio) - 1, Len(instant_audio))

\* sensitivity 3: the transcription of the first final flush failed and the
\* buffer holds chunks 19..24
C4_Witness ==
    /\ vad = 3
    /\ lane["final"].outcome = "fail" /\ lane["final"].at = received
    /\ audio_buffer = <<<<19>>, <<20>>, <<21>>, <<22>>, <<23>>, <<24>>>>

\* C5: when the adapter fails in a final-lane flush and the socket still takes
\* frames, that flush sends one error event and no transcription event, the
\* buffer is already cut to the overlap, and the session waits for the next chunk.
C5_FinalFailureReported ==
    [][ (pc = "final" /\ lane'["final"].outcome = "fail" /\ connected) =>
           /\ events' = Append(events, Event("error", "", "", <<>>))
           /\ Count(events', "error", "") = 1
           /\ Count(events', "transcription", "final") = 0
           /\ audio_buffer' = SliceLast(audio_buffer, FloorDiv(30 - 2 * vad, 4))
           /\ pending' = <<>>
           /\ pc' = "recv"
      ]_vars

\* a failed final flush was reported and the session is waiting for a chunk
C5_Witness ==
    /\ pc = "recv" /\ connected
    /\ lane["final"].outcome = "fail" /\ lane["final"].at = received
    /\ events # <<>> /\ events[Len(events)].type = "error"
    /\ Len(audio_buffer) = (30 - 2 * vad) \div 4


----------------------------------------------------------------------------
\* Properties of the registry (Spec)

\* C6: load(tier) with a handle already in the tier's slot starts no fetch,
\* leaves every slot, the downloading flag, the download status and the progress
\* threads as they are, and only makes the tier current before it returns.
C6_LoadIdempotent ==
    [][ \A i \in LoadIds :
          (/\ loads[i].pc = "start" /\ loads'[i].pc # "start"
           /\ loads[i].tier \in Tiers
           /\ models[loads[i].tier] # None) =>
             /\ loads'[i].pc = "returned"
             /\ current_model' = loads[i].tier
             /\ models' = models
             /\ fetches' = fetches
             /\ onDisk' = onDisk
             /\ is_downloading' = is_downloading
             /\ download_progress' = download_progress
             /\ prog' = prog
      ]_vars

\* two loads of "tiny" one after the other: one fetch, and the slot still holds
\* the handle of the first
C6_Witness ==
    /\ loads[1].tier = "tiny" /\ loads[1].pc = "returned"
    /\ loads[2].tier = "tiny" /\ loads[2].pc = "returned"
    /\ fetches = 2
    /\ models["tiny"] = Handle(1)
    /\ current_model = "tiny"

\* no tier has been asked for by two loads
DistinctTiers ==
    \A i, j \in LoadIds :
        (i # j /\ loads[i].pc # "idle" /\ loads[j].pc # "idle")
            => loads[i].tier # loads[j].tier

\* C7 (safety half): while the download of a tier is in flight, a poll that the
\* event loop can serve returns the in-progress record of that tier.  Stated
\* for loads of distinct tiers and from the first status of the progress thread
\* on, which asks less than the claim does.
C7_PollWhileDownloading ==
    \A i \in LoadIds :
        (/\ loads[i].pc = "fetching" /\ loads[i].needs_download
         /\ prog[i] # "begin"
         /\ DistinctTiers
         /\ LoopFree) => poll = Downloading(loads[i].tier)

\* C8: once the only load there has been has failed in its fetch, the slot is
\* absent, the current tier is the one it was, the flag is false and poll
\* returns absent.
C8_NoStatusAfterFailure ==
    \A i \in LoadIds :
        (/\ loads[i].pc = "raised" /\ loads[i].tier \in Tiers
         /\ \A j \in LoadIds \ {i} : loads[j].pc = "idle") =>
            /\ models[loads[i].tier] = None
            /\ current_model = "small"
            /\ ~is_downloading
            /\ poll = Absent

\* C9: the session finds the test of its wait loop false, and goes on to the
\* model check, only when no download is in flight or it has waited max_wait.
\* Stated for loads of distinct tiers.
C9_WaitCoversDownloads ==
    [][ (pc \in {"wait", "test"} /\ pc' = "switch" /\ DistinctTiers) =>
           (~DownloadInProgress \/ wait_time >= max_wait) ]_vars

\* C10: no two fetch-and-initialize calls of one tier are in flight together.
C10_OneFetchPerTier ==
    \A i, j \in LoadIds :
        (i # j /\ loads[i].pc = "fetching" /\ loads[j].pc = "fetching")
            => loads[i].tier # loads[j].tier

----------------------------------------------------------------------------
\* Properties of the session start (SpecStart)

ModelLoading == Event("model_loading", "", model, <<>>)
ModelLoaded  == Event("model_loaded", "", model, <<>>)

\* C11: when line 343 finds the requested tier current, nothing is sent and
\* load is not invoked; otherwise one model_loading for the requested tier is
\* sent and load is entered after it.  model_loaded for the requested tier is
\* sent once, after model_loading, only when load has returned and left a
\* handle in the requested tier's slot.  Both are sent before the first chunk
\* is received, so before every transcription event.
C11_ModelSwitchEvents ==
    /\ [](/\ pc \in {"wait", "sleep", "test", "switch"} =>
                (events = <<>> /\ loads[0].pc = "idle")
          /\ pc = "announce" => (events = <<ModelLoading>> /\ loads[0].pc = "idle")
          /\ pc = "load" => events = <<ModelLoading>>
          /\ pc = "recv" => \/ events = <<>> /\ loads[0].pc = "idle"
                            \/ /\ events = <<ModelLoading, ModelLoaded>>
                               /\ loads[0].pc = "returned"
                               /\ loads[0].tier = model
                               /\ models[model] # None
          /\ pc \in {"wait", "sleep", "test", "switch", "announce", "load"} =>
                received = 0)
    /\ [][ /\ (pc = "switch" /\ pc' # "switch" /\ model = current_model) =>
                (pc' = "recv" /\ events' = events /\ loads' = loads)
           /\ (pc = "switch" /\ pc' # "switch" /\ model # current_model /\ connected) =>
                (pc' = "announce" /\ events' = <<ModelLoading>> /\ loads' = loads)
           /\ (pc = "announce" /\ pc' # "announce") =>
                (/\ pc' = "load" /\ events' = events
                 /\ loads'[0].pc = "start" /\ loads'[0].tier = model)
           /\ (pc = "load" /\ pc' # "load" /\ loads[0].pc = "returned" /\ connected) =>
                (pc' = "recv" /\ events' = <<ModelLoading, ModelLoaded>>)
         ]_vars

\* a session for "medium" while "small" is current: the weights are fetched by
\* the session's load and both events have been delivered
C11_Witness ==
    /\ pc = "recv" /\ model = "medium"
    /\ events = <<ModelLoading, ModelLoaded>>
    /\ models["medium"] = Handle(0)
    /\ loads[0].pc = "returned"

\* C12: when the session's load has raised, with the client still connected,
\* the session is closed without having received a chunk and exactly one error
\* event has been delivered.
C12_LoadFailureReported ==
    (pc = "closed" /\ loads[0].pc = "raised" /\ connected) =>
        /\ received = 0
        /\ Count(events, "error", "") = 1

----------------------------------------------------------------------------
\* Further properties of the stream loop (SpecStream)

\* C13: once the delivery of an event has failed in either lane, the session
\* flushes no lane, makes no transcription call and receives no chunk.
C13_TransportFailureEndsLoop ==
    [][ (\E l \in {"instant", "final"} : lane[l].outcome = "send_failed") =>
           /\ \A l \in {"instant", "final"} : lane'[l].flushes = lane[l].flushes
           /\ instant_audio' = instant_audio
           /\ full_audio' = full_audio
           /\ received' = received
      ]_vars

\* C14: a flush of the instant lane whose transcription call fails sends
\* nothing, leaves the instant buffer at its retained overlap and the dedup
\* state as it was, and hands the iteration to the final lane, whose buffer
\* holds the chunk that triggered the flush; a final flush in that iteration
\* transcribes audio that ends with that chunk.
C14_InstantFailureSilent ==
    /\ [][ (pc = "instant" /\ lane'["instant"].flushes # lane["instant"].flushes
               /\ lane'["instant"].outcome = "fail") =>
              /\ events' = events
              /\ instant_buffer' = SliceLast(instant_buffer, 2)
              /\ last_instant_text' = last_instant_text
              /\ last_instant_time' = last_instant_time
              /\ pc' = "final"
              /\ audio_buffer' = audio_buffer
              /\ audio_buffer[Len(audio_buffer)] = <<received>>
         ]_vars
    /\ [][ (pc = "final" /\ lane["instant"].outcome = "fail") =>
              /\ Count(events, "error", "") = 0
              /\ lane'["final"].flushes # lane["final"].flushes =>
                    full_audio'[Len(full_audio')] = received
         ]_vars

\* chunk 20 at sensitivity 5: the instant flush failed, and the final lane has
\* flushed chunks 1..20 in the same iteration
C14_Witness ==
    /\ vad = 5 /\ received = 20
    /\ lane["instant"].outcome = "fail" /\ lane["instant"].at = 20
    /\ instant_buffer = <<Chunk(19), Chunk(20)>>
    /\ lane["final"].at = 20 /\ lane["final"].flushes = 1
    /\ full_audio = Range(1, 20)
    /\ Count(events, "error", "") = 0

\* C15: the dedup state of a lane changes only in the step that follows the
\* delivery of a segment by that lane (the return of its send_json), and it
\* then holds the segment's stripped text and the time read for its emission;
\* every other step (a suppressed or empty segment, a failed flush, a failed
\* send, anything in the other lane) leaves it as it was.  A repeat of the
\* lane's last text 1.5 after its emission is delivered by the instant lane
\* and suppressed by the final lane.
C15_DedupStateFrame ==
    /\ [](/\ pc = "isent" =>
              (/\ events # <<>>
               /\ events[Len(events)]
                    = Event("transcription", "instant", "", Head(pending).text))
          /\ pc = "fsent" =>
              (/\ events # <<>>
               /\ events[Len(events)]
                    = Event("transcription", "final", "", Head(pending).text)))
    /\ [][ LET emitI == /\ pc = "iseg"
                        /\ events' = Append(events,
                               Event("transcription", "instant", "", Head(pending).text))
               emitF == /\ pc = "fseg"
                        /\ events' = Append(events,
                               Event("transcription", "final", "", Head(pending).text))
               storeI == pc = "isent" /\ pc' # "isent"
               storeF == pc = "fsent" /\ pc' # "fsent"
           IN /\ emitI <=> (pc # "isent" /\ pc' = "isent")
              /\ emitF <=> (pc # "fsent" /\ pc' = "fsent")
              /\ storeI => /\ last_instant_text' = Strip(Head(pending).text)
                           /\ last_instant_time' = now
                           /\ now' = now
              /\ ~storeI => /\ last_instant_text' = last_instant_text
                            /\ last_instant_time' = last_instant_time
              /\ storeF => /\ last_transcription_text' = Strip(Head(pending).text)
                           /\ last_transcription_time' = now
                           /\ now' = now
              /\ ~storeF => /\ last_transcription_text' = last_transcription_text
                            /\ last_transcription_time' = last_transcription_time
              /\ (/\ pc = "iseg" /\ (pending' # pending \/ pc' # pc) /\ connected
                  /\ Strip(Head(pending).text) = last_instant_text
                  /\ last_instant_text # <<>>
                  /\ 2 * (now' - last_instant_time) = 3 * TicksPerUnit) => emitI
              /\ (/\ pc = "fseg" /\ (pending' # pending \/ pc' # pc)
                  /\ Strip(Head(pending).text) = last_transcription_text
                  /\ 2 * (now' - last_transcription_time) = 3 * TicksPerUnit) => ~emitF
         ]_vars

\* both lanes emitted "hej" at one time; 1.5 later the instant lane has emitted
\* "hej" again, and the final lane's state is still that of its emission
C15_Witness ==
    /\ decision.mode = "instant" /\ decision.result = "sent"
    /\ decision.text = Hej /\ decision.last_text = Hej
    /\ 2 * decision.elapsed = 3 * TicksPerUnit
    /\ last_instant_text = Hej /\ last_instant_time = now
    /\ last_transcription_text = Hej /\ last_transcription_time = now - 3

\* C16: every received chunk is appended to the final buffer, and to the
\* instant buffer exactly when instant mode is on.  With instant mode off the
\* instant buffer stays empty, the instant lane never flushes or calls the
\* adapter, its dedup state stays at its initial value and no event of mode
\* instant is delivered.
C16_InstantOnlyWhenEnabled ==
    /\ [](~instant =>
            /\ instant_buffer = <<>>
            /\ lane["instant"].flushes = 0
            /\ instant_audio = <<>>
            /\ last_instant_text = <<>> /\ last_instant_time = 0
            /\ pc \notin {"instant", "iseg", "isent"}
            /\ Count(events, "transcription", "instant") = 0)
    /\ [][ received' # received =>
              /\ audio_buffer' = Append(audio_buffer, <<received'>>)
              /\ instant => instant_buffer' = Append(instant_buffer, <<received'>>)
              /\ ~instant => instant_buffer' = instant_buffer
         ]_vars

\* a session without instant mode after its first final flush at chunk 24
C16_Witness ==
    /\ ~instant /\ vad = 3 /\ received = 24
    /\ lane["final"].flushes = 1 /\ lane["final"].outcome = "ok"
    /\ Count(events, "transcription", "final") = 1
    /\ instant_buffer = <<>>
    /\ lane["instant"].flushes = 0

----------------------------------------------------------------------------
\* Properties of the stream loop for any sensitivity (SpecVad)

\* C17: whenever the session is about to receive, the final buffer holds at
\* most max(1, threshold) chunks, where threshold = 30 - 2 * vad.
C17_FinalBufferBounded ==
    pc = "recv" => Len(audio_buffer) <= Max(1, 30 - 2 * vad)

----------------------------------------------------------------------------
\* Properties of a session beside load requests (SpecSwitch)

\* C18: every transcription call that a session has made and that returned
\* was run by the model of the tier the session asked for.
C18_SessionUsesItsTier ==
    \A l \in {"instant", "final"} :
        (lane[l].flushes > 0 /\ lane[l].outcome = "ok") => lane[l].tier = model

----------------------------------------------------------------------------
\* Further properties of the registry (SpecLoads)

\* C19: a status query reports is_downloading for its tier exactly when a
\* download of that tier is in flight at the time the response is made.
C19_StatusDownloading ==
    [][(status.pc = "read" /\ status'.pc = "done") =>
          (status'.is_downloading <=>
              \E i \in LoadIds : /\ loads[i].pc = "fetching"
                                 /\ loads[i].needs_download
                                 /\ loads[i].tier = status.model)]_vars

\* C20: in every state the slot of the current tier holds a handle, and no
\* step empties a slot that holds one; so transcribe_audio never finds the
\* current slot empty.
C20_CurrentSlotLoaded ==
    /\ [](models[current_model] # None)
    /\ [][\A t \in Tiers : models[t] # None => models'[t] # None]_vars

\* a download of "medium" has failed and a later load of "tiny" has succeeded
\* and made "tiny" current
C20_Witness ==
    /\ loads[1].pc = "raised" /\ loads[1].tier = "medium"
    /\ loads[2].pc = "returned" /\ loads[2].tier = "tiny"
    /\ models["medium"] = None
    /\ models["tiny"] = Handle(2) /\ models["small"] # None
    /\ current_model = "tiny"

----------------------------------------------------------------------------
\* The flush schedule of the stream loop (SpecStream)

\* the chunk on which flush number n of a lane with threshold t falls
FlushChunk(t, n) == t + (n - 1) * (t - FloorDiv(t, 4))

\* the flushes such a lane has made once chunk r has been processed
FlushesBy(t, r) == IF r < t THEN 0 ELSE ((r - t) \div (t - FloorDiv(t, 4))) + 1

\* C21: with threshold T >= 4 and overlap k = T \div 4, flush number N of a
\* lane was made while chunk T + (N-1)*(T-k) was being processed, and once a
\* chunk has been processed the lane has flushed exactly once for each such
\* chunk number up to it, whatever the flushes returned and the filter emitted.
C21_FlushSchedule ==
    LET T == 30 - 2 * vad IN
    /\ lane["final"].flushes > 0 =>
          lane["final"].at = T + (lane["final"].flushes - 1) * (T - (T \div 4))
    /\ lane["instant"].flushes > 0 =>
          lane["instant"].at = 8 + (lane["instant"].flushes - 1) * 6
    /\ pc \in {"recv", "closed", "fseg", "fsent"} =>
          lane["final"].flushes = FlushesBy(T, received)
    /\ (instant /\ pc \in {"recv", "closed", "final", "fseg", "fsent", "iseg", "isent"}) =>
          lane["instant"].flushes = FlushesBy(8, received)

\* sensitivity 3 after chunk 42: the final lane made its second flush on it,
\* after a first flush on chunk 24, and the instant lane made its sixth on
\* chunk 38; the second final flush failed
C21_Witness ==
    /\ vad = 3 /\ instant /\ received = 42 /\ pc = "recv"
    /\ lane["final"].flushes = 2 /\ lane["final"].at = FlushChunk(24, 2)
    /\ lane["final"].outcome = "fail"
    /\ lane["instant"].flushes = 6 /\ lane["instant"].at = FlushChunk(8, 6)

====
